---- MODULE Spec2Model ----
(***************************************************************************)
(* A model of orn.js (src/orn.js): the file-backed Collection, the Record  *)
(* handle and the Query builder.                                           *)
(*                                                                         *)
(* JavaScript objects live in a heap and are referred to by address, so    *)
(* that the sharing between the canonical array, the handles and the query *)
(* snapshots is the sharing the code has.  A JavaScript value is a record  *)
(* [t, n, s, k, e]: t is the type tag, n the number (or the boolean as     *)
(* 1/0, or the sign of an infinity), s the string, k the property names of *)
(* an object in insertion order and e the elements of an array or the      *)
(* property values of an object.                                           *)
(***************************************************************************)
EXTENDS Integers, Sequences, FiniteSets, TLC

(***************************************************************************)
(* Bounds of the model.                                                    *)
(***************************************************************************)
MaxCalls == 4       \* steps of one behaviour: the calls, and the ticks of the clock
MaxRecs == 3        \* records of the collection the query specification starts from
MaxRT == 2          \* records of the collection the round-trip specification starts from
MaxSorts == 2       \* calls of one behaviour of the ordering specification

(***************************************************************************)
(* JavaScript values.                                                      *)
(***************************************************************************)
Undef == [t |-> "undef", n |-> 0, s |-> "", k |-> <<>>, e |-> <<>>]
Null == [t |-> "null", n |-> 0, s |-> "", k |-> <<>>, e |-> <<>>]
NaN == [t |-> "nan", n |-> 0, s |-> "", k |-> <<>>, e |-> <<>>]
Inf(sign) == [t |-> "inf", n |-> sign, s |-> "", k |-> <<>>, e |-> <<>>]
Bool(b) == [t |-> "bool", n |-> IF b THEN 1 ELSE 0, s |-> "", k |-> <<>>, e |-> <<>>]
Num(i) == [t |-> "num", n |-> i, s |-> "", k |-> <<>>, e |-> <<>>]
Str(x) == [t |-> "str", n |-> 0, s |-> x, k |-> <<>>, e |-> <<>>]
Arr(es) == [t |-> "arr", n |-> 0, s |-> "", k |-> <<>>, e |-> es]
Obj(ks, es) == [t |-> "obj", n |-> 0, s |-> "", k |-> ks, e |-> es]

\* The position of property f among the own properties of object o, 0 if none.
KeyIndex(o, f) ==
    IF \E i \in 1..Len(o.k) : o.k[i] = f
    THEN CHOOSE i \in 1..Len(o.k) : o.k[i] = f /\ \A j \in 1..(i - 1) : o.k[j] # f
    ELSE 0

\* o[f]: reading a property that is not there gives undefined.
Get(o, f) == IF KeyIndex(o, f) = 0 THEN Undef ELSE o.e[KeyIndex(o, f)]

\* o[f] = v: an existing property keeps its place, a new one goes last.
Set(o, f, v) ==
    IF KeyIndex(o, f) = 0
    THEN Obj(Append(o.k, f), Append(o.e, v))
    ELSE Obj(o.k, [o.e EXCEPT ![KeyIndex(o, f)] = v])

\* ToBoolean, as the || of create applies it to obj.id.
Truthy(v) ==
    CASE v.t \in {"undef", "null", "nan"} -> FALSE
      [] v.t = "bool" -> v.n = 1
      [] v.t = "num" -> v.n # 0
      [] v.t = "str" -> v.s # ""
      [] OTHER -> TRUE

\* a === b for primitives; two object or array literals are never identical.
StrictEq(a, b) ==
    /\ a.t = b.t
    /\ a.t \notin {"nan", "arr", "obj"}
    /\ a = b

(***************************************************************************)
(* JSON.stringify and JSON.parse.  The text is modelled as its sequence of *)
(* tokens; the indentation that stringify(_, null, 2) adds is whitespace   *)
(* between tokens, which parse skips.                                      *)
(***************************************************************************)
Quote(x) == "\"" \o x \o "\""

RECURSIVE JSONstringify(_)
RECURSIVE StringifyElems(_, _)
RECURSIVE StringifyMembers(_, _, _, _)

\* Array elements: undefined is written as null.
StringifyElems(es, i) ==
    IF i > Len(es) THEN <<>>
    ELSE (IF i > 1 THEN <<",">> ELSE <<>>)
         \o (IF es[i].t = "undef" THEN <<"null">> ELSE JSONstringify(es[i]))
         \o StringifyElems(es, i + 1)

\* Object members in insertion order: a property whose value is undefined is left out.
StringifyMembers(ks, es, i, first) ==
    IF i > Len(ks) THEN <<>>
    ELSE IF es[i].t = "undef" THEN StringifyMembers(ks, es, i + 1, first)
    ELSE (IF first THEN <<>> ELSE <<",">>)
         \o <<Quote(ks[i]), ":">> \o JSONstringify(es[i])
         \o StringifyMembers(ks, es, i + 1, FALSE)

JSONstringify(v) ==
    CASE v.t = "str" -> <<Quote(v.s)>>
      [] v.t = "num" -> <<ToString(v.n)>>
      [] v.t \in {"null", "nan", "inf"} -> <<"null">>
      [] v.t = "bool" -> <<IF v.n = 1 THEN "true" ELSE "false">>
      [] v.t = "arr" -> <<"[">> \o StringifyElems(v.e, 1) \o <<"]">>
      [] v.t = "obj" -> <<"{">> \o StringifyMembers(v.k, v.e, 1, TRUE) \o <<"}">>

\* The strings and numbers the model's texts can hold.
Names == {"A", "B", "C", "D"}
SuppliedIds == {"a", "b"}
UUID(i) == "u" \o ToString(i)
FieldNames == {"id", "name", "_createdAt", "_updatedAt", "v", "x"}
MaxUuid == MaxCalls + MaxRecs + MaxRT
MaxTime == 1 + 2 * MaxCalls
Strings == Names \cup SuppliedIds \cup FieldNames \cup {UUID(i) : i \in 1..MaxUuid} \cup {""}
Numbers == (-1)..MaxTime

IsStrTok(tok) == \E x \in Strings : Quote(x) = tok
StrOfTok(tok) == CHOOSE x \in Strings : Quote(x) = tok
IsNumTok(tok) == \E i \in Numbers : ToString(i) = tok
NumOfTok(tok) == CHOOSE i \in Numbers : ToString(i) = tok

Tail2(toks) == SubSeq(toks, 2, Len(toks))
ParseFail == [ok |-> FALSE, v |-> Undef, rest |-> <<>>]
ParseOk(v, rest) == [ok |-> TRUE, v |-> v, rest |-> rest]

RECURSIVE ParseValue(_)
RECURSIVE ParseElems(_, _)
RECURSIVE ParseMembers(_, _, _)

\* After "[" and the elements es read so far: the next element, then "," or "]".
ParseElems(toks, es) ==
    LET r == ParseValue(toks) IN
    IF ~r.ok \/ r.rest = <<>> THEN ParseFail
    ELSE IF Head(r.rest) = "]" THEN ParseOk(Arr(Append(es, r.v)), Tail2(r.rest))
    ELSE IF Head(r.rest) = "," THEN ParseElems(Tail2(r.rest), Append(es, r.v))
    ELSE ParseFail

\* After "{" and the members read so far: key, ":", value, then "," or "}".
\* A repeated key keeps its first place and takes the last value.
ParseMembers(toks, ks, es) ==
    IF Len(toks) < 2 \/ ~IsStrTok(toks[1]) \/ toks[2] # ":" THEN ParseFail
    ELSE LET r == ParseValue(SubSeq(toks, 3, Len(toks)))
             o == Set(Obj(ks, es), StrOfTok(toks[1]), r.v)
         IN  IF ~r.ok \/ r.rest = <<>> THEN ParseFail
             ELSE IF Head(r.rest) = "}" THEN ParseOk(o, Tail2(r.rest))
             ELSE IF Head(r.rest) = "," THEN ParseMembers(Tail2(r.rest), o.k, o.e)
             ELSE ParseFail

ParseValue(toks) ==
    IF toks = <<>> THEN ParseFail
    ELSE LET tok == Head(toks)
             rest == Tail2(toks)
         IN  CASE tok = "null" -> ParseOk(Null, rest)
               [] tok = "true" -> ParseOk(Bool(TRUE), rest)
               [] tok = "false" -> ParseOk(Bool(FALSE), rest)
               [] tok = "[" ->
                    IF rest # <<>> /\ Head(rest) = "]"
                    THEN ParseOk(Arr(<<>>), Tail2(rest))
                    ELSE ParseElems(rest, <<>>)
               [] tok = "{" ->
                    IF rest # <<>> /\ Head(rest) = "}"
                    THEN ParseOk(Obj(<<>>, <<>>), Tail2(rest))
                    ELSE ParseMembers(rest, <<>>, <<>>)
               [] OTHER ->
                    IF IsStrTok(tok) THEN ParseOk(Str(StrOfTok(tok)), rest)
                    ELSE IF IsNumTok(tok) THEN ParseOk(Num(NumOfTok(tok)), rest)
                    ELSE ParseFail

\* JSON.parse(raw): the whole text must be one value; otherwise it throws.
JSONparse(raw) ==
    LET r == ParseValue(raw) IN
    IF r.ok /\ r.rest = <<>> THEN r ELSE ParseFail

(***************************************************************************)
(* The state.                                                              *)
(*   heap     the objects the records are, by address (1..Len(heap))       *)
(*   data     OrnCollection.data: the canonical array, of addresses        *)
(*   file     the backing file: whether it exists, and its text            *)
(*   handles  the OrnRecord handles the caller holds: obj is this.obj, own *)
(*            the properties Object.assign copied onto the handle itself   *)
(*   query    the OrnQuery the caller holds: records is this.records       *)
(*   clock    the last value Date.now() returned                           *)
(*   uuids    how many identifiers crypto.randomUUID() has handed out      *)
(*   givenId  whether some create() call got an object that carried an id  *)
(*   other    the OrnCollection of a second process on the same file: its  *)
(*            data, and whether its writeFileSync has opened the file and  *)
(*            not yet written                                              *)
(*   last     the last call: its name, the handle it was made on or that   *)
(*            it returned, whether its lookup matched, the argument it was *)
(*            given, the handles it returned as an array, whether it       *)
(*            threw, the name of the call before it, and how many calls    *)
(*            that makes                                                   *)
(***************************************************************************)
VARIABLES heap, data, file, handles, query, clock, uuids, givenId, other, last

vars == <<heap, data, file, handles, query, clock, uuids, givenId, other, last>>

NoHandle == [obj |-> 0, own |-> Obj(<<>>, <<>>)]
NoQuery == [live |-> FALSE, records |-> <<>>]
NoFile == [exists |-> FALSE, raw |-> <<>>]
NoOther == [live |-> FALSE, data |-> <<>>, writing |-> FALSE]
NoCall ==
    [op |-> "new", h |-> NoHandle, hit |-> FALSE, arg |-> Undef,
     out |-> <<>>, err |-> FALSE, prev |-> "", n |-> 0]
Call(op, h, hit, arg) ==
    [op |-> op, h |-> h, hit |-> hit, arg |-> arg,
     out |-> <<>>, err |-> FALSE, prev |-> last.op, n |-> last.n + 1]

\* The records of an array of addresses d, as values, in heap h.
Vals(h, d) == [i \in 1..Len(d) |-> h[d[i]]]
DataVals == Vals(heap, data)

\* Date.now(): the time it is.
Now(t) == t = clock

\* OrnCollection._save, in Node (fs is there): the whole array is written.
SaveFile(h, d) == [exists |-> TRUE, raw |-> JSONstringify(Arr(Vals(h, d)))]

\* _load with the two arms of its ?: exchanged.
Load_Swapped(f) ==
    IF f.exists /\ f.raw # <<>> THEN ParseOk(Arr(<<>>), <<>>) ELSE JSONparse(f.raw)

\* A _load that catches what JSON.parse throws and starts empty.
Load_CatchAll(f) ==
    IF f.exists /\ f.raw # <<>> /\ JSONparse(f.raw).ok
    THEN JSONparse(f.raw)
    ELSE ParseOk(Arr(<<>>), <<>>)

\* OrnCollection._load: no file, or an empty one, is an empty collection;
\* text that does not parse makes JSON.parse throw (ok is FALSE).
Load(f) ==
    IF f.exists /\ f.raw # <<>> THEN JSONparse(f.raw) ELSE ParseOk(Arr(<<>>), <<>>)

\* new OrnRecord(collection, obj): this.obj is obj itself, and Object.assign
\* copies obj's own properties onto the handle.
OrnRecord(h, a) == [obj |-> a, own |-> h[a]]

\* A handle a call returned is one more handle the caller has.
Keep(h) == handles' = handles \cup {h}

\* data.findIndex(r => r.id === id), 1-based; 0 for the code's -1.
FindIndex(h, d, id) ==
    IF \E i \in 1..Len(d) : StrictEq(Get(h[d[i]], "id"), id)
    THEN CHOOSE i \in 1..Len(d) :
            /\ StrictEq(Get(h[d[i]], "id"), id)
            /\ \A j \in 1..(i - 1) : ~StrictEq(Get(h[d[j]], "id"), id)
    ELSE 0

\* where as find: the first match alone is kept.
FilterEq_FirstOnly(h, d, f, v) ==
    IF \E i \in 1..Len(d) : StrictEq(Get(h[d[i]], f), v)
    THEN <<d[CHOOSE i \in 1..Len(d) :
                /\ StrictEq(Get(h[d[i]], f), v)
                /\ \A j \in 1..(i - 1) : ~StrictEq(Get(h[d[j]], f), v)]>>
    ELSE <<>>

\* d.filter(r => r[f] === v)
RECURSIVE FilterEq(_, _, _, _)
FilterEq(h, d, f, v) ==
    IF d = <<>> THEN <<>>
    ELSE (IF StrictEq(Get(h[Head(d)], f), v) THEN <<Head(d)>> ELSE <<>>)
         \o FilterEq(h, Tail(d), f, v)

\* d.filter(r => r.id !== id)
RECURSIVE FilterNotId(_, _, _)
FilterNotId(h, d, id) ==
    IF d = <<>> THEN <<>>
    ELSE (IF ~StrictEq(Get(h[Head(d)], "id"), id) THEN <<Head(d)>> ELSE <<>>)
         \o FilterNotId(h, Tail(d), id)

\* Time passes between two calls.
Tick ==
    /\ clock' = clock + 1
    /\ last' = Call("tick", NoHandle, FALSE, Undef)
    /\ UNCHANGED <<heap, data, file, handles, query, uuids, givenId, other>>

Init ==
    /\ heap = <<>>
    /\ data = <<>>
    /\ file = NoFile
    /\ handles = {}
    /\ query = NoQuery
    /\ clock = 1
    /\ uuids = 0
    /\ givenId = FALSE
    /\ other = NoOther
    /\ last = NoCall

(***************************************************************************)
(* OrnCollection.                                                          *)
(***************************************************************************)
\* What create(obj) does to obj: the id, then the two timestamps.
Stamp(o, t1, t2) ==
    LET id == IF Truthy(Get(o, "id")) THEN Get(o, "id") ELSE Str(UUID(uuids + 1))
    IN  Set(Set(Set(o, "id", id), "_createdAt", Num(t1)), "_updatedAt", Num(t2))

\* create() when the query was handed the canonical array itself and not a
\* copy: the push shows in this.records.
CreateObj_SharedSnapshot(a, o, t1, t2) ==
    LET h2 == [i \in 1..(IF a > Len(heap) THEN a ELSE Len(heap)) |->
                  IF i = a THEN Stamp(o, t1, t2) ELSE heap[i]]
        d2 == Append(data, a)
    IN  /\ Now(t1)
        /\ t2 \in {t1, t1 + 1}
        /\ heap' = h2
        /\ data' = d2
        /\ file' = SaveFile(h2, d2)
        /\ Keep(OrnRecord(h2, a))
        /\ clock' = t2
        /\ uuids' = IF Truthy(Get(o, "id")) THEN uuids ELSE uuids + 1
        /\ givenId' = (givenId \/ Truthy(Get(o, "id")))
        /\ last' = Call("create", OrnRecord(h2, a), Truthy(Get(o, "id")), Get(o, "id"))
        /\ query' = IF query.live THEN [query EXCEPT !.records = Append(@, a)] ELSE query
        /\ UNCHANGED other

\* create(obj) with the object at address a (a new one when a is past the
\* heap), whose properties are o when the call starts, the two Date.now()
\* calls giving t1 and t2.
CreateObj(a, o, t1, t2) ==
    LET h2 == [i \in 1..(IF a > Len(heap) THEN a ELSE Len(heap)) |->
                  IF i = a THEN Stamp(o, t1, t2) ELSE heap[i]]
        d2 == Append(data, a)
    IN  /\ Now(t1)
        /\ t2 \in {t1, t1 + 1}
        /\ heap' = h2
        /\ data' = d2
        /\ file' = SaveFile(h2, d2)
        /\ Keep(OrnRecord(h2, a))
        /\ clock' = t2
        /\ uuids' = IF Truthy(Get(o, "id")) THEN uuids ELSE uuids + 1
        /\ givenId' = (givenId \/ Truthy(Get(o, "id")))
        /\ last' = Call("create", OrnRecord(h2, a), Truthy(Get(o, "id")), Get(o, "id"))
        /\ UNCHANGED <<query, other>>

\* The object literals a caller passes: a name, and an id or none.
GivenIds == {Undef, Str("a"), Num(0)}
GivenNames == {"A"}
Literal(id, name) ==
    IF id = Undef THEN Obj(<<"name">>, <<Str(name)>>)
    ELSE Obj(<<"id", "name">>, <<id, Str(name)>>)

\* create({name: ...}) or create({id: ..., name: ...}) with a new object.
Create ==
    \E id \in GivenIds, name \in GivenNames, t1 \in 1..MaxTime, t2 \in 1..MaxTime :
        CreateObj(Len(heap) + 1, Literal(id, name), t1, t2)

\* create(obj) with an object that was passed to create before.
CreateAgain ==
    \E a \in 1..Len(heap), t1 \in 1..MaxTime, t2 \in 1..MaxTime :
        CreateObj(a, heap[a], t1, t2)

\* all(): one handle per canonical record.
CollAll ==
    /\ handles' = handles \cup {OrnRecord(heap, data[i]) : i \in 1..Len(data)}
    /\ last' = [Call("all", NoHandle, data # <<>>, Undef)
                    EXCEPT !.out = [i \in 1..Len(data) |-> OrnRecord(heap, data[i])]]
    /\ UNCHANGED <<heap, data, file, query, clock, uuids, givenId, other>>

Clear ==
    /\ data' = <<>>
    /\ file' = SaveFile(heap, <<>>)
    /\ last' = Call("clear", NoHandle, FALSE, Undef)
    /\ UNCHANGED <<heap, handles, query, clock, uuids, givenId, other>>

Compact ==
    /\ file' = SaveFile(heap, data)
    /\ last' = Call("compact", NoHandle, FALSE, Undef)
    /\ UNCHANGED <<heap, data, handles, query, clock, uuids, givenId, other>>

(***************************************************************************)
(* OrnRecord.                                                              *)
(***************************************************************************)
\* A handle whose fields are the record's own: the assignment lands in this.obj.
SetField_WritesThrough(h, f, v) ==
    LET h2 == [h EXCEPT !.own = Set(@, f, v)]
    IN  /\ h \in handles
        /\ Get(h.own, f) # v
        /\ handles' = (handles \ {h}) \cup {h2}
        /\ heap' = [heap EXCEPT ![h.obj] = Set(@, f, v)]
        /\ last' = Call("set", h2, FALSE, Undef)
        /\ UNCHANGED <<data, file, query, clock, uuids, givenId, other>>

\* handle.f = v: the caller changes a field of the handle h it holds.
SetField(h, f, v) ==
    LET h2 == [h EXCEPT !.own = Set(@, f, v)]
    IN  /\ h \in handles
        /\ Get(h.own, f) # v
        /\ handles' = (handles \ {h}) \cup {h2}
        /\ last' = Call("set", h2, FALSE, Undef)
        /\ UNCHANGED <<heap, data, file, query, clock, uuids, givenId, other>>

\* save() that pushes without looking for the id.
RecordSave_AlwaysPush(h, t) ==
    LET a == h.obj
        h2 == [heap EXCEPT ![a] = Set(@, "_updatedAt", Num(t))]
        d2 == Append(data, a)
    IN  /\ h \in handles
        /\ Now(t)
        /\ heap' = h2
        /\ data' = d2
        /\ file' = SaveFile(h2, d2)
        /\ clock' = t
        /\ last' = Call("save", h, FALSE, Undef)
        /\ UNCHANGED <<handles, query, uuids, givenId, other>>

\* save() that takes the found entry out and pushes the record at the end.
RecordSave_MoveToEnd(h, t) ==
    LET a == h.obj
        h2 == [heap EXCEPT ![a] = Set(@, "_updatedAt", Num(t))]
        idx == FindIndex(h2, data, Get(h2[a], "id"))
        d2 == IF idx > 0
              THEN Append(SubSeq(data, 1, idx - 1) \o SubSeq(data, idx + 1, Len(data)), a)
              ELSE Append(data, a)
    IN  /\ h \in handles
        /\ Now(t)
        /\ heap' = h2
        /\ data' = d2
        /\ file' = SaveFile(h2, d2)
        /\ clock' = t
        /\ last' = Call("save", h, idx > 0, Undef)
        /\ UNCHANGED <<handles, query, uuids, givenId, other>>

\* save() that leaves the array alone when the id is not found.
RecordSave_SkipMissing(h, t) ==
    LET a == h.obj
        h2 == [heap EXCEPT ![a] = Set(@, "_updatedAt", Num(t))]
        idx == FindIndex(h2, data, Get(h2[a], "id"))
        d2 == IF idx > 0 THEN [data EXCEPT ![idx] = a] ELSE data
    IN  /\ h \in handles
        /\ Now(t)
        /\ heap' = h2
        /\ data' = d2
        /\ file' = SaveFile(h2, d2)
        /\ clock' = t
        /\ last' = Call("save", h, idx > 0, Undef)
        /\ UNCHANGED <<handles, query, uuids, givenId, other>>

\* save() on the handle h, Date.now() giving t.
RecordSave(h, t) ==
    LET a == h.obj
        h2 == [heap EXCEPT ![a] = Set(@, "_updatedAt", Num(t))]
        idx == FindIndex(h2, data, Get(h2[a], "id"))
        d2 == IF idx > 0 THEN [data EXCEPT ![idx] = a] ELSE Append(data, a)
    IN  /\ h \in handles
        /\ Now(t)
        /\ heap' = h2
        /\ data' = d2
        /\ file' = SaveFile(h2, d2)
        /\ clock' = t
        /\ last' = Call("save", h, idx > 0, Undef)
        /\ UNCHANGED <<handles, query, uuids, givenId, other>>

\* delete() that forgets to call _save.
RecordDelete_NoSave(h) ==
    LET d2 == FilterNotId(heap, data, Get(heap[h.obj], "id"))
    IN  /\ h \in handles
        /\ data' = d2
        /\ last' = Call("delete", h, Len(d2) < Len(data), Undef)
        /\ UNCHANGED <<heap, file, handles, query, clock, uuids, givenId, other>>

\* delete() that removes the first match only.
RecordDelete_FirstOnly(h) ==
    LET idx == FindIndex(heap, data, Get(heap[h.obj], "id"))
        d2 == IF idx > 0
              THEN SubSeq(data, 1, idx - 1) \o SubSeq(data, idx + 1, Len(data))
              ELSE data
    IN  /\ h \in handles
        /\ data' = d2
        /\ file' = SaveFile(heap, d2)
        /\ last' = Call("delete", h, Len(d2) < Len(data), Undef)
        /\ UNCHANGED <<heap, handles, query, clock, uuids, givenId, other>>

\* delete() as data.splice(findIndex(...), 1): an index of -1 takes the last entry.
RecordDelete_Splice(h) ==
    LET idx == FindIndex(heap, data, Get(heap[h.obj], "id"))
        at == IF idx > 0 THEN idx ELSE Len(data)
        d2 == SubSeq(data, 1, at - 1) \o SubSeq(data, at + 1, Len(data))
    IN  /\ h \in handles
        /\ data' = d2
        /\ file' = SaveFile(heap, d2)
        /\ last' = Call("delete", h, idx > 0, Undef)
        /\ UNCHANGED <<heap, handles, query, clock, uuids, givenId, other>>

\* delete() on the handle h.
RecordDelete(h) ==
    LET d2 == FilterNotId(heap, data, Get(heap[h.obj], "id"))
    IN  /\ h \in handles
        /\ data' = d2
        /\ file' = SaveFile(heap, d2)
        /\ last' = Call("delete", h, Len(d2) < Len(data), Undef)
        /\ UNCHANGED <<heap, handles, query, clock, uuids, givenId, other>>

EditNames == {"B"}

\* One more step is within the bound.
CanCall == last.n < MaxCalls

Next ==
    \/ CanCall /\ Tick
    \/ CanCall /\ Create
    \/ CanCall /\ CreateAgain
    \/ CanCall /\ CollAll
    \/ CanCall /\ Clear
    \/ CanCall /\ Compact
    \/ CanCall /\ \E h \in handles, v \in EditNames : SetField(h, "name", Str(v))
    \/ CanCall /\ \E h \in handles, t \in 1..MaxTime : RecordSave(h, t)
    \/ CanCall /\ \E h \in handles : RecordDelete(h)

Spec == Init /\ [][Next]_vars

(***************************************************************************)
(* OrnQuery, and the two OrnCollection methods that build one.             *)
(***************************************************************************)
\* The strings of the model in the order of their UTF-16 code units.
StrOrder ==
    <<"", "A", "B", "C", "D", "_createdAt", "_updatedAt", "a", "b", "id", "name">>
    \o [i \in 1..MaxUuid |-> UUID(i)]
    \o <<"v", "x">>
StrRank(x) == CHOOSE i \in 1..Len(StrOrder) : StrOrder[i] = x

\* ToNumber, for the values the comparison below converts; nan marks NaN.
ToNumber(v) ==
    CASE v.t = "num" -> [nan |-> FALSE, n |-> v.n]
      [] v.t = "bool" -> [nan |-> FALSE, n |-> v.n]
      [] v.t = "null" -> [nan |-> FALSE, n |-> 0]
      [] v.t = "str" /\ v.s = "" -> [nan |-> FALSE, n |-> 0]
      [] OTHER -> [nan |-> TRUE, n |-> 0]

\* a < b: two strings by code units, anything else as numbers.
Less(a, b) ==
    IF a.t = "str" /\ b.t = "str" THEN StrRank(a.s) < StrRank(b.s)
    ELSE /\ ~ToNumber(a).nan
         /\ ~ToNumber(b).nan
         /\ ToNumber(a).n < ToNumber(b).n

\* A comparator that does not look at desc.
Compare_IgnoreDesc(h, a, b, f, desc) ==
    IF Less(Get(h[a], f), Get(h[b], f)) THEN -1
    ELSE IF Less(Get(h[b], f), Get(h[a], f)) THEN 1
    ELSE 0

\* The comparator orderBy hands to sort, on the records at addresses a and b.
Compare(h, a, b, f, desc) ==
    IF Less(Get(h[a], f), Get(h[b], f)) THEN (IF desc THEN 1 ELSE -1)
    ELSE IF Less(Get(h[b], f), Get(h[a], f)) THEN (IF desc THEN -1 ELSE 1)
    ELSE 0

\* An insertion that puts x in front of the elements it ties with.
RECURSIVE InsertSorted_BeforeTies(_, _, _, _, _)
InsertSorted_BeforeTies(h, sorted, x, f, desc) ==
    IF sorted = <<>> THEN <<x>>
    ELSE IF Compare(h, sorted[Len(sorted)], x, f, desc) >= 0
         THEN Append(InsertSorted_BeforeTies(h, SubSeq(sorted, 1, Len(sorted) - 1), x, f, desc),
                     sorted[Len(sorted)])
         ELSE Append(sorted, x)

\* Array.prototype.sort is stable: x goes after the last element that does
\* not compare greater than it.
RECURSIVE InsertSorted(_, _, _, _, _)
InsertSorted(h, sorted, x, f, desc) ==
    IF sorted = <<>> THEN <<x>>
    ELSE IF Compare(h, sorted[Len(sorted)], x, f, desc) > 0
         THEN Append(InsertSorted(h, SubSeq(sorted, 1, Len(sorted) - 1), x, f, desc),
                     sorted[Len(sorted)])
         ELSE Append(sorted, x)

RECURSIVE SortBy(_, _, _, _)
SortBy(h, recs, f, desc) ==
    IF recs = <<>> THEN <<>>
    ELSE InsertSorted(h, SortBy(h, SubSeq(recs, 1, Len(recs) - 1), f, desc),
                      recs[Len(recs)], f, desc)

\* Whether the comparator orders the records of recs consistently: "compares
\* equal" and "compares less" are both transitive.  sort() is specified for
\* such a comparator only; for any other the order is left to the engine.
ConsistentOn(vs) ==
    \A i \in 1..Len(vs), j \in 1..Len(vs), k \in 1..Len(vs) :
        /\ (~Less(vs[i], vs[j]) /\ ~Less(vs[j], vs[i]) /\ ~Less(vs[j], vs[k]) /\ ~Less(vs[k], vs[j]))
              => (~Less(vs[i], vs[k]) /\ ~Less(vs[k], vs[i]))
        /\ (Less(vs[i], vs[j]) /\ Less(vs[j], vs[k])) => Less(vs[i], vs[k])

\* The values of field f in the records of recs.
RECURSIVE FieldOf(_, _, _)
FieldOf(h, recs, f) ==
    IF recs = <<>> THEN <<>> ELSE <<Get(h[Head(recs)], f)>> \o FieldOf(h, Tail(recs), f)

Consistent(h, recs, f) == ConsistentOn(FieldOf(h, recs, f))

\* The arrays that are recs in some order.
Reorderings(recs) ==
    {[i \in 1..Len(recs) |-> recs[p[i]]] :
        p \in {q \in [1..Len(recs) -> 1..Len(recs)] :
                  \A i \in 1..Len(recs), j \in 1..Len(recs) : q[i] = q[j] => i = j}}

\* What recs.sort(comparator) can leave in recs.
SortOutcomes(h, recs, f, desc) ==
    IF Consistent(h, recs, f) THEN {SortBy(h, recs, f, desc)} ELSE Reorderings(recs)

\* A slice whose end index is taken as the last one kept.
Slice0_Inclusive(recs, n) ==
    SubSeq(recs, 1, IF n + 1 > Len(recs) THEN Len(recs) ELSE n + 1)

\* recs.slice(0, n): a negative n counts from the end.
Slice0(recs, n) ==
    LET end == IF n < 0 THEN (IF Len(recs) + n < 0 THEN 0 ELSE Len(recs) + n)
               ELSE (IF n > Len(recs) THEN Len(recs) ELSE n)
    IN  SubSeq(recs, 1, end)

QueryFields == {"name", "id"}
WhereArgs == {<<"name", Str("A")>>, <<"name", Str("B")>>, <<"id", Str(UUID(1))>>}
LimitArgs == {0, 1, 2, MaxRecs + 1}

\* find(): a query over a copy of the canonical array.
CollFind ==
    /\ query' = [live |-> TRUE, records |-> data]
    /\ last' = Call("find", NoHandle, FALSE, Undef)
    /\ UNCHANGED <<heap, data, file, handles, clock, uuids, givenId, other>>

\* where(field, value) on the collection: a query over the filtered array.
CollWhere(f, v) ==
    /\ query' = [live |-> TRUE, records |-> FilterEq(heap, data, f, v)]
    /\ last' = Call("where", NoHandle, FALSE, Obj(<<f>>, <<v>>))
    /\ UNCHANGED <<heap, data, file, handles, clock, uuids, givenId, other>>

QueryWhere(f, v) ==
    /\ query.live
    /\ query' = [query EXCEPT !.records = FilterEq(heap, query.records, f, v)]
    /\ last' = Call("q.where", NoHandle, FALSE, Obj(<<f>>, <<v>>))
    /\ UNCHANGED <<heap, data, file, handles, clock, uuids, givenId, other>>

\* orderBy on a query that was handed the canonical array itself, not a copy.
QueryOrderBy_InPlace(f, desc) ==
    /\ query.live
    /\ query' = [query EXCEPT !.records = SortBy(heap, query.records, f, desc)]
    /\ data' = SortBy(heap, data, f, desc)
    /\ last' = Call("q.orderBy", NoHandle, FALSE, Obj(<<f>>, <<Bool(desc)>>))
    /\ UNCHANGED <<heap, file, handles, clock, uuids, givenId, other>>

\* orderBy sorts this.records in place; the array is the query's own.
QueryOrderBy(f, desc) ==
    /\ query.live
    /\ \E sorted \in SortOutcomes(heap, query.records, f, desc) :
          query' = [query EXCEPT !.records = sorted]
    /\ last' = Call("q.orderBy", NoHandle, FALSE, Obj(<<f>>, <<Bool(desc)>>))
    /\ UNCHANGED <<heap, data, file, handles, clock, uuids, givenId, other>>

QueryLimit(n) ==
    /\ query.live
    /\ query' = [query EXCEPT !.records = Slice0(query.records, n)]
    /\ last' = Call("q.limit", NoHandle, FALSE, Num(n))
    /\ UNCHANGED <<heap, data, file, handles, clock, uuids, givenId, other>>

\* all() on the query: one handle per record of the snapshot.
QueryAll ==
    /\ query.live
    /\ handles' = handles \cup {OrnRecord(heap, query.records[i]) : i \in 1..Len(query.records)}
    /\ last' = [Call("q.all", NoHandle, query.records # <<>>, Undef)
                    EXCEPT !.out = [i \in 1..Len(query.records) |->
                                       OrnRecord(heap, query.records[i])]]
    /\ UNCHANGED <<heap, data, file, query, clock, uuids, givenId, other>>

\* first() that takes the entry off the snapshot, as this.records.shift() would.
QueryFirst_Shift ==
    /\ query.live
    /\ IF Len(query.records) > 0
       THEN /\ Keep(OrnRecord(heap, query.records[1]))
            /\ last' = Call("q.first", OrnRecord(heap, query.records[1]), TRUE, Undef)
       ELSE /\ handles' = handles
            /\ last' = Call("q.first", NoHandle, FALSE, Undef)
    /\ query' = [query EXCEPT !.records = Tail2(@)]
    /\ UNCHANGED <<heap, data, file, clock, uuids, givenId, other>>

\* first() on the query: a handle on the first record, or null.
QueryFirst ==
    /\ query.live
    /\ IF Len(query.records) > 0
       THEN /\ Keep(OrnRecord(heap, query.records[1]))
            /\ last' = Call("q.first", OrnRecord(heap, query.records[1]), TRUE, Undef)
       ELSE /\ handles' = handles
            /\ last' = Call("q.first", NoHandle, FALSE, Undef)
    /\ UNCHANGED <<heap, data, file, query, clock, uuids, givenId, other>>

QueryOps == {"find", "where", "q.where", "q.orderBy", "q.limit", "q.all", "q.first"}

(***************************************************************************)
(* The query specification: a collection that create() filled with up to   *)
(* MaxRecs records, none given an id, and the query calls on it.           *)
(***************************************************************************)
Created(names) ==
    [i \in 1..Len(names) |->
        Obj(<<"name", "id", "_createdAt", "_updatedAt">>,
            <<Str(names[i]), Str(UUID(i)), Num(1), Num(1)>>)]

QueryNames == {"A", "B"}

InitQ ==
    /\ \E n \in 0..MaxRecs : \E names \in [1..n -> QueryNames] :
          /\ heap = Created(names)
          /\ data = [i \in 1..n |-> i]
          /\ uuids = n
    /\ file = SaveFile(heap, data)
    /\ handles = {}
    /\ query = NoQuery
    /\ clock = 1
    /\ givenId = FALSE
    /\ other = NoOther
    /\ last = NoCall

NextQ ==
    \/ CanCall /\ CollFind
    \/ CanCall /\ \E w \in WhereArgs : CollWhere(w[1], w[2])
    \/ CanCall /\ \E w \in WhereArgs : QueryWhere(w[1], w[2])
    \/ CanCall /\ \E f \in QueryFields, desc \in BOOLEAN : QueryOrderBy(f, desc)
    \/ CanCall /\ \E n \in LimitArgs : QueryLimit(n)
    \/ CanCall /\ QueryAll
    \/ CanCall /\ QueryFirst

SpecQ == InitQ /\ [][NextQ]_vars

(***************************************************************************)
(* The snapshot specification: the same collection, a query built on it,   *)
(* and the calls that change the collection while the caller holds the     *)
(* query.                                                                  *)
(***************************************************************************)
InitS ==
    /\ \E n \in 1..MaxRT : \E names \in [1..n -> {"A", "B"}] :
          /\ heap = Created(names)
          /\ data = [i \in 1..n |-> i]
          /\ uuids = n
    /\ file = SaveFile(heap, data)
    /\ handles = {}
    /\ query = NoQuery
    /\ clock = 1
    /\ givenId = FALSE
    /\ other = NoOther
    /\ last = NoCall

NextS ==
    \/ CanCall /\ CollFind
    \/ CanCall /\ CollWhere("name", Str("A"))
    \/ CanCall /\ \E t1 \in 1..MaxTime, t2 \in 1..MaxTime :
                      CreateObj(Len(heap) + 1, Literal(Undef, "A"), t1, t2)
    \/ CanCall /\ CollAll
    \/ CanCall /\ \E h \in handles, t \in 1..MaxTime : RecordSave(h, t)
    \/ CanCall /\ \E h \in handles : RecordDelete(h)
    \/ CanCall /\ Clear
    \/ CanCall /\ QueryAll

SpecS == InitS /\ [][NextS]_vars

(***************************************************************************)
(* The scenario specification: a fresh collection in which create() made   *)
(* records with distinct names, and a caller who runs                      *)
(*     find().orderBy("name", true).limit(2).all()                         *)
(* and then, or at once,                                                   *)
(*     h = where("name", v).first();  h.delete();  all()                   *)
(* The caller's place in this script is the call it made last.             *)
(***************************************************************************)
InitE ==
    /\ \E n \in 0..MaxRecs :
          \E names \in {q \in [1..n -> Names] : \A i, j \in 1..n : q[i] = q[j] => i = j} :
             /\ heap = Created(names)
             /\ data = [i \in 1..n |-> i]
             /\ uuids = n
    /\ file = SaveFile(heap, data)
    /\ handles = {}
    /\ query = NoQuery
    /\ clock = 1
    /\ givenId = FALSE
    /\ other = NoOther
    /\ last = NoCall

NextE ==
    \/ last.op = "new" /\ CollFind
    \/ last.op = "find" /\ QueryOrderBy("name", TRUE)
    \/ last.op = "q.orderBy" /\ QueryLimit(2)
    \/ last.op = "q.limit" /\ QueryAll
    \/ last.op \in {"new", "q.all"} /\ \E v \in Names : CollWhere("name", Str(v))
    \/ last.op = "where" /\ QueryFirst
    \/ last.op = "q.first" /\ last.hit /\ RecordDelete(last.h)
    \/ last.op = "delete" /\ CollAll

SpecE == InitE /\ [][NextE]_vars

(***************************************************************************)
(* The ordering specification: a collection of up to MaxRecs records whose *)
(* field k is a number, a string, or missing, and orderBy on that field.   *)
(***************************************************************************)
KValues == {Num(1), Num(2), Str("A"), Str("B"), Undef}

\* What create({k: ...}), or create({}) for undefined, made of its arguments.
CreatedK(ks) ==
    [i \in 1..Len(ks) |->
        IF ks[i] = Undef
        THEN Obj(<<"id", "_createdAt", "_updatedAt">>, <<Str(UUID(i)), Num(1), Num(1)>>)
        ELSE Obj(<<"k", "id", "_createdAt", "_updatedAt">>,
                 <<ks[i], Str(UUID(i)), Num(1), Num(1)>>)]

InitO ==
    /\ \E n \in 0..MaxRecs : \E ks \in [1..n -> KValues] :
          /\ heap = CreatedK(ks)
          /\ data = [i \in 1..n |-> i]
          /\ uuids = n
    /\ file = SaveFile(heap, data)
    /\ handles = {}
    /\ query = NoQuery
    /\ clock = 1
    /\ givenId = FALSE
    /\ other = NoOther
    /\ last = NoCall

CanSort == last.n < MaxSorts

NextO ==
    \/ CanSort /\ CollFind
    \/ CanSort /\ \E desc \in BOOLEAN : QueryOrderBy("k", desc)

SpecO == InitO /\ [][NextO]_vars

(***************************************************************************)
(* The round-trip specification: a collection of up to MaxRT records whose *)
(* fields are drawn from every kind of value, _save, and the start of a    *)
(* new process, which builds the collection again from the file.           *)
(***************************************************************************)
RTPrims == {Str("A"), Num(1), NaN, Inf(-1), Bool(TRUE), Null}
RTNested ==
    { Arr(<<>>),
      Obj(<<>>, <<>>),
      Arr(<<Num(0), NaN>>),
      Arr(<<Str(""), Obj(<<"x">>, <<Null>>)>>),
      Obj(<<"x">>, <<Arr(<<Inf(1)>>)>>),
      Obj(<<"x", "v">>, <<Bool(FALSE), Arr(<<Num(1)>>)>>) }
RTValues == RTPrims \cup RTNested

\* What create({v: ...}) made of its arguments, one after the other.
CreatedRT(vs) ==
    [i \in 1..Len(vs) |->
        Obj(<<"v", "id", "_createdAt", "_updatedAt">>,
            <<vs[i], Str(UUID(i)), Num(1), Num(1)>>)]

\* new OrnCollection(name, dir) in a new process: _load from the file.  The
\* objects of the old process are gone; the records are the parsed ones.
Restart ==
    /\ IF Load(file).ok
       THEN /\ heap' = Load(file).v.e
            /\ data' = [i \in 1..Len(Load(file).v.e) |-> i]
            /\ last' = Call("load", NoHandle, TRUE, Undef)
       ELSE /\ heap' = <<>>
            /\ data' = <<>>
            /\ last' = [Call("load", NoHandle, FALSE, Undef) EXCEPT !.err = TRUE]
    /\ handles' = {}
    /\ query' = NoQuery
    /\ UNCHANGED <<file, clock, uuids, givenId, other>>

InitRT ==
    /\ \E n \in 0..MaxRT : \E vs \in [1..n -> RTValues] :
          /\ heap = CreatedRT(vs)
          /\ data = [i \in 1..n |-> i]
          /\ uuids = n
    /\ file = SaveFile(heap, data)
    /\ handles = {}
    /\ query = NoQuery
    /\ clock = 1
    /\ givenId = FALSE
    /\ other = NoOther
    /\ last = NoCall

NextRT ==
    \/ CanCall /\ Compact
    \/ CanCall /\ Restart

SpecRT == InitRT /\ [][NextRT]_vars

(***************************************************************************)
(* The failure specification: the collection's calls when writeFileSync    *)
(* throws.  The handler has changed the array by then, and nothing catches *)
(* the error: it leaves the handler, whose remaining statements (the       *)
(* return of a handle) do not run.                                         *)
(***************************************************************************)
\* Where a write that fails after the file was opened can stop: before the
\* first token, or in the middle of the text.
Cuts(raw) == {0, Len(raw) \div 2}

\* What a writeFileSync of raw that throws can leave of the file f: f as it
\* was when the file could not be opened; when it was opened, which empties
\* it, the beginning of raw that was written before the error.
WriteFailures(f, raw) ==
    {f} \cup {[exists |-> TRUE, raw |-> SubSeq(raw, 1, k)] : k \in Cuts(raw)}

Throws(op, hit, arg) == [Call(op, NoHandle, hit, arg) EXCEPT !.err = TRUE]

CreateFails(o, t1, t2) ==
    LET a == Len(heap) + 1
        h2 == Append(heap, Stamp(o, t1, t2))
        d2 == Append(data, a)
    IN  /\ Now(t1)
        /\ t2 \in {t1, t1 + 1}
        /\ heap' = h2
        /\ data' = d2
        /\ file' \in WriteFailures(file, SaveFile(h2, d2).raw)
        /\ clock' = t2
        /\ uuids' = IF Truthy(Get(o, "id")) THEN uuids ELSE uuids + 1
        /\ givenId' = (givenId \/ Truthy(Get(o, "id")))
        /\ last' = Throws("create", Truthy(Get(o, "id")), Get(o, "id"))
        /\ UNCHANGED <<handles, query, other>>

\* A clear() that puts the array back when the write throws.
ClearFails_Rollback ==
    /\ file' \in WriteFailures(file, SaveFile(heap, <<>>).raw)
    /\ last' = Throws("clear", FALSE, Undef)
    /\ UNCHANGED <<heap, data, handles, query, clock, uuids, givenId, other>>

ClearFails ==
    /\ data' = <<>>
    /\ file' \in WriteFailures(file, SaveFile(heap, <<>>).raw)
    /\ last' = Throws("clear", FALSE, Undef)
    /\ UNCHANGED <<heap, handles, query, clock, uuids, givenId, other>>

CompactFails ==
    /\ file' \in WriteFailures(file, SaveFile(heap, data).raw)
    /\ last' = Throws("compact", FALSE, Undef)
    /\ UNCHANGED <<heap, data, handles, query, clock, uuids, givenId, other>>

RecordSaveFails(h, t) ==
    LET a == h.obj
        h2 == [heap EXCEPT ![a] = Set(@, "_updatedAt", Num(t))]
        idx == FindIndex(h2, data, Get(h2[a], "id"))
        d2 == IF idx > 0 THEN [data EXCEPT ![idx] = a] ELSE Append(data, a)
    IN  /\ h \in handles
        /\ Now(t)
        /\ heap' = h2
        /\ data' = d2
        /\ file' \in WriteFailures(file, SaveFile(h2, d2).raw)
        /\ clock' = t
        /\ last' = [Throws("save", idx > 0, Undef) EXCEPT !.h = h]
        /\ UNCHANGED <<handles, query, uuids, givenId, other>>

RecordDeleteFails(h) ==
    LET d2 == FilterNotId(heap, data, Get(heap[h.obj], "id"))
    IN  /\ h \in handles
        /\ data' = d2
        /\ file' \in WriteFailures(file, SaveFile(heap, d2).raw)
        /\ last' = [Throws("delete", Len(d2) < Len(data), Undef) EXCEPT !.h = h]
        /\ UNCHANGED <<heap, handles, query, clock, uuids, givenId, other>>

InitF ==
    /\ \E n \in 0..MaxRT : \E names \in [1..n -> {"A"}] :
          /\ heap = Created(names)
          /\ data = [i \in 1..n |-> i]
          /\ uuids = n
    /\ file = SaveFile(heap, data)
    /\ handles = {}
    /\ query = NoQuery
    /\ clock = 1
    /\ givenId = FALSE
    /\ other = NoOther
    /\ last = NoCall

NextF ==
    \/ CanCall /\ CollAll
    \/ CanCall /\ Compact
    \/ CanCall /\ \E t1 \in 1..MaxTime, t2 \in 1..MaxTime :
                      CreateFails(Literal(Undef, "A"), t1, t2)
    \/ CanCall /\ ClearFails
    \/ CanCall /\ CompactFails
    \/ CanCall /\ \E h \in handles, t \in 1..MaxTime : RecordSaveFails(h, t)
    \/ CanCall /\ \E h \in handles : RecordDeleteFails(h)

SpecF == InitF /\ [][NextF]_vars

(***************************************************************************)
(* The two-writer specification: a second process has built an            *)
(* OrnCollection on the same file.  Its objects are its own; the two       *)
(* processes share the file alone.  Within a process a call runs to its    *)
(* end, but writeFileSync is not one step for the other process: it opens  *)
(* the file, which empties it, and then writes the text at the start of    *)
(* the file.  The second process's calls are modelled in these two steps,  *)
(* so that a whole call of the first process can fall between them.        *)
(***************************************************************************)
\* The text new written at the start of a file that holds old.
Overlay(new, old) == new \o SubSeq(old, Len(new) + 1, Len(old))

\* An open that leaves in the file what it holds.
OtherOpen_Keep == file

\* The second process's _save, first step: open for writing.
OtherOpen == [exists |-> TRUE, raw |-> <<>>]

\* create({name: ...}) in the second process, up to the open.
OtherCreate(name) ==
    /\ other.live
    /\ ~other.writing
    /\ other' = [other EXCEPT
                    !.data = Append(@, Stamp(Literal(Undef, name), clock, clock)),
                    !.writing = TRUE]
    /\ uuids' = uuids + 1
    /\ file' = OtherOpen
    /\ last' = Call("o.create", NoHandle, FALSE, Undef)
    /\ UNCHANGED <<heap, data, handles, query, clock, givenId>>

\* clear() in the second process, up to the open.
OtherClear ==
    /\ other.live
    /\ ~other.writing
    /\ other' = [other EXCEPT !.data = <<>>, !.writing = TRUE]
    /\ file' = OtherOpen
    /\ last' = Call("o.clear", NoHandle, FALSE, Undef)
    /\ UNCHANGED <<heap, data, handles, query, clock, uuids, givenId>>

\* The rest of the second process's call: the text is written, and the call returns.
OtherWrite ==
    /\ other.writing
    /\ file' = [exists |-> TRUE,
                raw |-> Overlay(JSONstringify(Arr(other.data)), file.raw)]
    /\ other' = [other EXCEPT !.writing = FALSE]
    /\ last' = Call("o.write", NoHandle, FALSE, Undef)
    /\ UNCHANGED <<heap, data, handles, query, clock, uuids, givenId>>

\* Both processes have loaded the file.
InitW ==
    /\ \E n \in 0..MaxRT : \E names \in [1..n -> {"A"}] :
          /\ heap = Created(names)
          /\ data = [i \in 1..n |-> i]
          /\ uuids = n
    /\ file = SaveFile(heap, data)
    /\ handles = {}
    /\ query = NoQuery
    /\ clock = 1
    /\ givenId = FALSE
    /\ other = [live |-> TRUE, data |-> Load(file).v.e, writing |-> FALSE]
    /\ last = NoCall

NextW ==
    \/ CanCall /\ \E t1 \in 1..MaxTime, t2 \in 1..MaxTime :
                      CreateObj(Len(heap) + 1, Literal(Undef, "A"), t1, t2)
    \/ CanCall /\ Clear
    \/ CanCall /\ CollAll
    \/ CanCall /\ \E h \in handles : RecordDelete(h)
    \/ CanCall /\ OtherCreate("B")
    \/ CanCall /\ OtherClear
    \/ CanCall /\ OtherWrite

SpecW == InitW /\ [][NextW]_vars

(***************************************************************************)
(* The loading specification: a process that starts with the backing file  *)
(* absent, empty, as a _save left it, or damaged, and builds the           *)
(* collection.  When the constructor throws there is no collection to make *)
(* a call on; the process can only try to build it again.                  *)
(***************************************************************************)
\* The texts _save can have left for up to MaxRT records.
SavedTexts ==
    UNION {{SaveFile(Created(names), [i \in 1..n |-> i]).raw : names \in [1..n -> QueryNames]} :
              n \in 0..MaxRT}

\* Texts that are not JSON: a saved text cut short, one with something
\* after its end, and text that was never JSON.
CutShort == UNION {{SubSeq(raw, 1, k) : k \in 1..(Len(raw) - 1)} : raw \in SavedTexts}
CorruptTexts ==
    CutShort
        \cup {Append(raw, "]") : raw \in SavedTexts}
        \cup {<<"oops">>, <<"]">>, <<"[", ",", "]">>, <<"{", Quote("id"), "}">>}

Usable == last.op # "start" /\ ~(last.op = "load" /\ last.err)

InitL ==
    /\ heap = <<>>
    /\ data = <<>>
    /\ file \in {NoFile, [exists |-> TRUE, raw |-> <<>>]}
                 \cup {[exists |-> TRUE, raw |-> raw] : raw \in SavedTexts \cup CorruptTexts}
    /\ handles = {}
    /\ query = NoQuery
    /\ clock = 2
    /\ uuids = MaxRT
    /\ givenId = FALSE
    /\ other = NoOther
    /\ last = [NoCall EXCEPT !.op = "start"]

NextL ==
    \/ CanCall /\ Restart
    \/ CanCall /\ Usable /\ Compact
    \/ CanCall /\ Usable /\ Clear

SpecL == InitL /\ [][NextL]_vars

(***************************************************************************)
(* The properties.                                                         *)
(***************************************************************************)
IdAt(h, d, i) == Get(h[d[i]], "id")
Ids(i) == IdAt(heap, data, i)

\* The positions of the canonical array that hold the id of the record of handle h.
Matches(h) == {i \in 1..Len(data) : StrictEq(Ids(i), Get(heap[h.obj], "id"))}

\* Position j of the array after the step holds what position i held before it.
SameEntry(i, j) == heap'[data'[j]] = heap[data[i]]

\* C1: after every create, save, delete, clear and compact the text of the
\* file is the serialization of the canonical array as it now is; before
\* the first of them there is no file and the array is empty.
C1_FileMirrorsMemory ==
    IF file.exists
    THEN file.raw = JSONstringify(Arr(DataVals))
    ELSE data = <<>>

C1_Witness ==
    /\ last.op = "delete"
    /\ last.hit
    /\ Len(data) >= 1
    /\ file.exists

\* A value that JSON text can hold: no NaN and no infinity, at any depth.
RECURSIVE Finite(_)
Finite(v) ==
    /\ v.t \notin {"nan", "inf"}
    /\ \A i \in 1..Len(v.e) : Finite(v.e[i])

\* C2, as claimed: the records a new process loads after _save are the
\* records that were saved, field for field and in the same order.
C2_RoundTrip ==
    [][(last.op = "compact" /\ last'.op = "load") => (last'.hit /\ DataVals' = DataVals)]_vars

\* C2, amended: so it is when every number in the records is finite.
C2_RoundTripFinite ==
    [][(last.op = "compact" /\ last'.op = "load" /\ \A i \in 1..Len(data) : Finite(DataVals[i]))
          => (last'.hit /\ DataVals' = DataVals)]_vars

C2_Witness ==
    /\ last.op = "load"
    /\ last.hit
    /\ Len(data) = 2
    /\ Get(heap[data[1]], "v") = Arr(<<Str(""), Obj(<<"x">>, <<Null>>)>>)
    /\ Get(heap[data[2]], "v") = Obj(<<"x", "v">>, <<Bool(FALSE), Arr(<<Num(1)>>)>>)
    /\ Get(heap[data[2]], "_createdAt") = Num(1)

\* C3, as claimed: no two entries of the canonical array have the same id.
C3_UniqueIds ==
    \A i \in 1..Len(data) : \A j \in 1..Len(data) :
        i # j => ~StrictEq(Ids(i), Ids(j))

\* C3, amended: no two entries have the same id as long as no create() call
\* was given an object that already carried an id.
C3_UniqueGeneratedIds == ~givenId => C3_UniqueIds

C3_Witness ==
    /\ ~givenId
    /\ Len(data) = 2
    /\ last.op = "save"
    /\ ~last.hit

\* C4: when the caller gave create() an id, the stored record and the
\* handle returned carry that id.
C4_GivenIdKept ==
    (last.op = "create" /\ last.arg # Undef)
        => /\ Ids(Len(data)) = last.arg
           /\ Get(last.h.own, "id") = last.arg

\* C5: after save() on a handle the canonical entry with the handle's id
\* holds the name the handle has.
C5_SaveWritesHandle ==
    last.op = "save"
        => \A i \in 1..Len(data) :
              StrictEq(Ids(i), Get(last.h.own, "id"))
                  => Get(heap[data[i]], "name") = Get(last.h.own, "name")

C7_SaveFrame ==
    [][last'.op = "save"
          => IF Matches(last'.h) # {}
             THEN /\ Len(data') = Len(data)
                  /\ \E i \in Matches(last'.h) :
                        /\ data'[i] = last'.h.obj
                        /\ \A j \in 1..Len(data) : j # i => SameEntry(j, j)
             ELSE /\ data' = Append(data, last'.h.obj)
                  /\ \A j \in 1..Len(data) : SameEntry(j, j)]_vars

\* C7, amended: so it is when the id is present in exactly one entry, and
\* when it is absent.
C7_SaveFrameUniqueId ==
    [][last'.op = "save"
          => /\ Cardinality(Matches(last'.h)) = 1 =>
                  /\ Len(data') = Len(data)
                  /\ \E i \in Matches(last'.h) :
                        /\ data'[i] = last'.h.obj
                        /\ \A j \in 1..Len(data) : j # i => SameEntry(j, j)
             /\ Matches(last'.h) = {} =>
                  /\ data' = Append(data, last'.h.obj)
                  /\ \A j \in 1..Len(data) : SameEntry(j, j)]_vars

C7_Witness ==
    /\ last.op = "save"
    /\ last.hit
    /\ Len(data) = 2
    /\ data[2] = last.h.obj
    /\ ~StrictEq(Ids(1), Ids(2))
    /\ Get(heap[data[2]], "_updatedAt") # Get(heap[data[2]], "_createdAt")

\* The entries of d, in heap h, whose id is not id.
RECURSIVE OthersOf(_, _, _)
OthersOf(h, d, id) ==
    IF d = <<>> THEN <<>>
    ELSE IF StrictEq(Get(h[Head(d)], "id"), id) THEN OthersOf(h, Tail(d), id)
    ELSE <<h[Head(d)]>> \o OthersOf(h, Tail(d), id)

\* C8: delete() leaves no entry with the id of the handle's record, and the
\* entries with another id stay, unchanged and in their order.
C8_DeleteFrame ==
    [][last'.op = "delete"
          => LET id == Get(heap[last'.h.obj], "id")
             IN  /\ \A i \in 1..Len(data') : ~StrictEq(IdAt(heap', data', i), id)
                 /\ Vals(heap', data') = OthersOf(heap, data, id)]_vars

C8_Witness ==
    /\ last.op = "delete"
    /\ last.hit
    /\ Len(data) >= 1
    /\ givenId

\* C9: delete() on a handle whose id is in no entry changes neither the
\* canonical array nor the text of the file.
C9_DeleteIdempotent ==
    [][(last'.op = "delete" /\ Matches(last'.h) = {})
          => /\ Vals(heap', data') = DataVals
             /\ data' = data
             /\ file' = file]_vars

C9_Witness ==
    /\ last.op = "delete"
    /\ ~last.hit
    /\ Len(data) >= 1
    /\ file.raw = JSONstringify(Arr(DataVals))

\* C10: find, where and the calls on a query change neither the canonical
\* array, nor a record of it, nor the file.
C10_QueriesDoNotMutate ==
    [][last'.op \in QueryOps
          => /\ data' = data
             /\ heap' = heap
             /\ file' = file]_vars

C10_Witness ==
    /\ last.op = "q.orderBy"
    /\ Len(query.records) = Len(data)
    /\ Len(data) >= 2
    /\ query.records # data

\* C11: once find() or where() has built the query, no later call changes
\* which records its snapshot holds or their order, and all() on the query
\* returns one handle per record of the snapshot, in the snapshot's order.
C11_SnapshotFixed ==
    [][/\ last'.op \notin {"find", "where"} => query' = query
       /\ last'.op = "q.all"
          => /\ Len(last'.out) = Len(query.records)
             /\ \A i \in 1..Len(query.records) :
                   /\ last'.out[i].obj = query.records[i]
                   /\ last'.out[i].own = heap'[query.records[i]]
                   /\ last'.out[i] \in handles']_vars

C11_Witness ==
    /\ last.op = "q.all"
    /\ last.prev \in {"create", "save", "delete", "clear"}
    /\ Len(last.out) >= 2
    /\ Len(query.records) # Len(data)

\* The fields and values the second where of a chain is taken from: fields
\* every record has and one that none has, values of every kind.
ChainFields == {"name", "id", "x"}
ChainValues == {Str("A"), Str(UUID(1)), Num(1), Undef, NaN}

\* C12: where(f, v) keeps exactly the entries whose field f is strictly
\* equal to v, in the order they had; and whatever second where(g, w)
\* follows, the chain gives what the chain in the other order gives.
C12_WhereCommutes ==
    [][last'.op \in {"where", "q.where"}
          => LET f == last'.arg.k[1]
                 v == last'.arg.e[1]
                 before == IF last'.op = "where" THEN data ELSE query.records
                 IsMatch(a) == StrictEq(Get(heap[a], f), v)
             IN  /\ query'.records = SelectSeq(before, IsMatch)
                 /\ \A g \in ChainFields, w \in ChainValues :
                       FilterEq(heap, query'.records, g, w)
                           = FilterEq(heap, FilterEq(heap, before, g, w), f, v)]_vars

C12_Witness ==
    /\ last.op = "q.where"
    /\ last.prev \in {"where", "q.where"}
    /\ last.arg = Obj(<<"id">>, <<Str(UUID(1))>>)
    /\ query.records = <<1>>
    /\ Len(data) = 3

\* The place of the record at address a in the array recs.
Place(recs, a) == CHOOSE i \in 1..Len(recs) : recs[i] = a

\* The values of field f in recs are all numbers, or all strings.
OneType(h, recs, f) ==
    \/ \A i \in 1..Len(recs) : Get(h[recs[i]], f).t \in {"num", "inf"}
    \/ \A i \in 1..Len(recs) : Get(h[recs[i]], f).t = "str"

\* after is before in another order, no entry holds a smaller value of f
\* than an entry in front of it (a greater one when desc), and entries with
\* the same value of f are in the order they had.
SortedStably(h, before, after, f, desc) ==
    /\ Len(after) = Len(before)
    /\ \A i \in 1..Len(before) : \E j \in 1..Len(after) : after[j] = before[i]
    /\ \A i \in 1..Len(after), j \in 1..Len(after) :
          i < j => IF desc THEN ~Less(Get(h[after[i]], f), Get(h[after[j]], f))
                           ELSE ~Less(Get(h[after[j]], f), Get(h[after[i]], f))
    /\ \A i \in 1..Len(before), j \in 1..Len(before) :
          (i < j /\ Get(h[before[i]], f) = Get(h[before[j]], f))
              => Place(after, before[i]) < Place(after, before[j])

\* C13, as claimed: orderBy(field, desc) leaves the snapshot's entries in
\* an order sorted by the field, upwards or, with desc, downwards, entries
\* with equal values keeping their order.
C13_OrderBySorts ==
    [][last'.op = "q.orderBy"
          => SortedStably(heap, query.records, query'.records,
                          last'.arg.k[1], last'.arg.e[1] = Bool(TRUE))]_vars

\* C13, amended: so it is when the field's values in the snapshot are all
\* numbers or all strings.
C13_OrderBySortsOneType ==
    [][(last'.op = "q.orderBy" /\ OneType(heap, query.records, last'.arg.k[1]))
          => SortedStably(heap, query.records, query'.records,
                          last'.arg.k[1], last'.arg.e[1] = Bool(TRUE))]_vars

C13_Witness ==
    /\ last.op = "q.orderBy"
    /\ last.arg = Obj(<<"k">>, <<Bool(TRUE)>>)
    /\ query.records = <<3, 1, 2>>
    /\ Get(heap[1], "k") = Num(1)
    /\ Get(heap[2], "k") = Num(1)
    /\ Get(heap[3], "k") = Num(2)

\* C14: limit(n), n >= 0, leaves the first min(n, length) entries of the
\* snapshot in their order: none for n = 0, all of them for n >= length.
C14_LimitTruncates ==
    [][(last'.op = "q.limit" /\ last'.arg.n >= 0)
          => LET n == last'.arg.n
                 len == Len(query.records)
                 m == IF n < len THEN n ELSE len
             IN  /\ Len(query'.records) = m
                 /\ \A i \in 1..m : query'.records[i] = query.records[i]
                 /\ n = 0 => query'.records = <<>>
                 /\ n >= len => query'.records = query.records]_vars

C14_Witness ==
    /\ last.op = "q.limit"
    /\ last.prev = "find"
    /\ last.arg = Num(2)
    /\ query.records = <<1, 2>>
    /\ data = <<1, 2, 3>>

\* The record of d with the greatest name.
Greatest(h, d) ==
    CHOOSE a \in {d[i] : i \in 1..Len(d)} :
        \A i \in 1..Len(d) :
            StrRank(Get(h[d[i]], "name").s) <= StrRank(Get(h[a], "name").s)

\* d without the record at address a.
Without(d, a) == LET Other(x) == x # a IN SelectSeq(d, Other)

\* The two records of d with the greatest names, the greatest first; fewer
\* when d has fewer.
TwoGreatest(h, d) ==
    IF d = <<>> THEN <<>>
    ELSE IF Len(d) = 1 THEN d
    ELSE <<Greatest(h, d), Greatest(h, Without(d, Greatest(h, d)))>>

\* The records an array of handles is on.
Objs(out) == [i \in 1..Len(out) |-> out[i].obj]

\* C15: in a collection of records with distinct names,
\* find().orderBy("name", true).limit(2).all() returns the two records with
\* the greatest names, the greatest first; where("name", v).first() returns
\* the record named v, or null when there is none; delete() on that handle
\* removes that record alone, and all() then returns the records that are
\* left in the order they were created in.
C15_EndToEnd ==
    [][/\ last'.op = "q.all"
          => /\ Objs(last'.out) = TwoGreatest(heap, data)
             /\ \A i \in 1..Len(last'.out) : last'.out[i].own = heap[last'.out[i].obj]
       /\ (last.op = "where" /\ last'.op = "q.first")
          => IF \E i \in 1..Len(data) : Get(heap[data[i]], "name") = last.arg.e[1]
             THEN /\ last'.hit
                  /\ Get(last'.h.own, "name") = last.arg.e[1]
                  /\ Get(heap[last'.h.obj], "name") = last.arg.e[1]
                  /\ \E i \in 1..Len(data) : data[i] = last'.h.obj
             ELSE /\ ~last'.hit
                  /\ last'.h = NoHandle
       /\ (last.op = "q.first" /\ last'.op = "delete")
          => /\ data' = Without(data, last.h.obj)
             /\ Len(data') = Len(data) - 1
             /\ heap' = heap
       /\ (last.op = "delete" /\ last'.op = "all")
          => /\ Objs(last'.out) = data
             /\ \A i \in 1..Len(data) : last'.out[i].own = heap[data[i]]
             /\ data' = data
             /\ heap' = heap]_vars

C15_Witness ==
    /\ last.op = "all"
    /\ last.prev = "delete"
    /\ Len(heap) = 3
    /\ Len(last.out) = 2
    /\ Get(last.out[1].own, "name") = Str("A")
    /\ Get(last.out[2].own, "name") = Str("C")
    /\ \E g \in handles :
          /\ Get(g.own, "name") = Str("B")
          /\ \A i \in 1..Len(data) : data[i] # g.obj

\* C16: building the collection with no file, or with an empty one, gives
\* an empty canonical array; with a file that is not JSON the constructor
\* throws, and there is no collection: the next thing that can happen is
\* another attempt to build it.
C16_LoadOrFail ==
    [][/\ last'.op = "load"
          => /\ (~file.exists \/ file.raw = <<>>) => (~last'.err /\ data' = <<>>)
             /\ (file.exists /\ file.raw \in CorruptTexts) => (last'.err /\ ~Usable')
             /\ file' = file
       /\ (last.op = "load" /\ last.err) => last'.op = "load"]_vars

C16_Witness ==
    /\ last.op = "load"
    /\ last.err
    /\ last.prev = "load"
    /\ Len(file.raw) > 17
    /\ file.raw \in CutShort

\* What the call that threw has made of the array: what the call makes of
\* it when the write succeeds.
MutationKept ==
    CASE last'.op = "create" ->
            /\ Len(data') = Len(data) + 1
            /\ SubSeq(data', 1, Len(data)) = data
            /\ data'[Len(data')] = Len(heap) + 1
            /\ Get(heap'[Len(heap) + 1], "name") = Str("A")
            /\ SubSeq(heap', 1, Len(heap)) = heap
      [] last'.op = "clear" -> data' = <<>> /\ heap' = heap
      [] last'.op = "compact" -> data' = data /\ heap' = heap
      [] last'.op = "delete" ->
            /\ Vals(heap', data') = OthersOf(heap, data, Get(heap[last'.h.obj], "id"))
            /\ heap' = heap
      [] last'.op = "save" ->
            /\ Get(heap'[last'.h.obj], "_updatedAt") = Num(clock')
            /\ IF Matches(last'.h) = {}
               THEN data' = Append(data, last'.h.obj)
               ELSE /\ Len(data') = Len(data)
                    /\ \E i \in Matches(last'.h) : data' = [data EXCEPT ![i] = last'.h.obj]

\* raw begins with part, and goes on after it.
CutOf(part, raw) == Len(part) < Len(raw) /\ part = SubSeq(raw, 1, Len(part))

\* C17, as claimed: when the write fails the error reaches the caller, the
\* array keeps the change the call made, and the file is as it was before
\* the call.
C17_FailureKeepsFile ==
    [][last'.err
          => /\ MutationKept
             /\ handles' = handles
             /\ file' = file]_vars

\* C17, amended: the file is as it was before the call, or holds a
\* beginning of the text the call was writing; when it was the text of the
\* array before the call and the call changed the array, it is not the
\* text of the array after it; and it is the text of the array again
\* after the next call that writes without failing.
C17_FailureWindow ==
    [][/\ last'.err
          => /\ MutationKept
             /\ handles' = handles
             /\ \/ file' = file
                \/ file'.exists /\ CutOf(file'.raw, SaveFile(heap', data').raw)
             /\ (file = SaveFile(heap, data) /\ Vals(heap', data') # DataVals)
                   => file' # SaveFile(heap', data')
       /\ (last.err /\ ~last'.err /\ last'.op = "compact")
          => file' = SaveFile(heap', data')]_vars

C17_Witness ==
    /\ last.err
    /\ last.op = "delete"
    /\ last.hit
    /\ Len(data) >= 1
    /\ file.exists
    /\ file.raw # <<>>
    /\ CutOf(file.raw, SaveFile(heap, data).raw)

\* The ids of the records of an array of record values.
IdsOf(recs) == {Get(recs[i], "id") : i \in 1..Len(recs)}

\* The tokens of a text.
Tokens(raw) == {raw[i] : i \in 1..Len(raw)}

\* C18, as claimed: after each process's call the file holds the array of
\* the process that wrote last and nothing else: a record the other
\* process made since is not in it, and neither call throws.
C18_LastWriterWins ==
    [][/\ last'.op = "o.write"
          => /\ file'.raw = JSONstringify(Arr(other.data))
             /\ \A id \in IdsOf(DataVals) \ IdsOf(other.data) :
                   Quote(id.s) \notin Tokens(file'.raw)
             /\ ~last'.err
       /\ last'.op \in {"create", "clear", "delete"}
          => /\ file'.raw = JSONstringify(Arr(Vals(heap', data')))
             /\ \A id \in IdsOf(other.data) \ IdsOf(Vals(heap', data')) :
                   Quote(id.s) \notin Tokens(file'.raw)
             /\ ~last'.err]_vars

\* C18, amended: so it is when no call of the other process fell between
\* the open and the write of the call.
C18_LastWriterWinsApart ==
    [][/\ (last'.op = "o.write" /\ last.op \in {"o.create", "o.clear"})
          => /\ file'.raw = JSONstringify(Arr(other.data))
             /\ \A id \in IdsOf(DataVals) \ IdsOf(other.data) :
                   Quote(id.s) \notin Tokens(file'.raw)
             /\ ~last'.err
       /\ last'.op \in {"create", "clear", "delete"}
          => /\ file'.raw = JSONstringify(Arr(Vals(heap', data')))
             /\ \A id \in IdsOf(other.data) \ IdsOf(Vals(heap', data')) :
                   Quote(id.s) \notin Tokens(file'.raw)
             /\ ~last'.err]_vars

C18_Witness ==
    /\ last.op = "o.write"
    /\ last.prev = "o.create"
    /\ file.raw = JSONstringify(Arr(other.data))
    /\ IdsOf(DataVals) \ IdsOf(other.data) # {}
    /\ IdsOf(other.data) \ IdsOf(DataVals) # {}
    /\ file.raw # JSONstringify(Arr(DataVals))

\* C19: when delete() on one handle has removed a record and the next call
\* is save() on a handle of the same record, one the caller had before the
\* delete, the record is the last entry of the array again, with a new
\* _updatedAt and otherwise as it was, the file holds the array, and
\* nothing is thrown.
C19_SaveResurrects ==
    [][(/\ last.op = "delete"
        /\ last.hit
        /\ last'.op = "save"
        /\ StrictEq(Get(heap[last'.h.obj], "id"), Get(heap[last.h.obj], "id")))
          => /\ last'.h \in handles
             /\ data' = Append(data, last'.h.obj)
             /\ heap' = [heap EXCEPT ![last'.h.obj] = Set(@, "_updatedAt", Num(clock'))]
             /\ file'.exists
             /\ file'.raw = JSONstringify(Arr(Vals(heap', data')))
             /\ ~last'.err]_vars

C19_Witness ==
    /\ last.op = "save"
    /\ last.prev = "delete"
    /\ ~last.hit
    /\ Len(data) = 2
    /\ data[2] = last.h.obj
    /\ data[1] # data[2]
    /\ Quote(Get(heap[data[2]], "id").s) \in Tokens(file.raw)

\* C20: all() and first() leave the snapshot as it is: a terminal call made
\* again returns handles on the same records in the same order, a where,
\* orderBy or limit made after one works on the snapshot the terminal call
\* found, and first() on an empty snapshot returns null and throws nothing.
C20_TerminalsKeepSnapshot ==
    [][/\ last'.op \in {"q.all", "q.first"} => query' = query
       /\ (last.op = "q.all" /\ last'.op = "q.all") => Objs(last'.out) = Objs(last.out)
       /\ (last.op = "q.first" /\ last'.op = "q.first") => last'.h.obj = last.h.obj
       /\ (last.op = "q.all" /\ last'.op = "q.first" /\ last.out # <<>>)
             => last'.h.obj = last.out[1].obj
       /\ last'.op = "q.all" => Objs(last'.out) = query.records
       /\ last'.op = "q.first"
             => IF query.records = <<>>
                THEN last'.h = NoHandle /\ ~last'.hit /\ ~last'.err
                ELSE last'.h.obj = query.records[1] /\ last'.hit
       /\ (last.op \in {"q.all", "q.first"} /\ last'.op = "q.where")
             => query'.records = FilterEq(heap, query.records, last'.arg.k[1], last'.arg.e[1])
       /\ (last.op \in {"q.all", "q.first"} /\ last'.op = "q.limit")
             => query'.records = Slice0(query.records, last'.arg.n)
       /\ (last.op \in {"q.all", "q.first"} /\ last'.op = "q.orderBy")
             => query'.records \in SortOutcomes(heap, query.records, last'.arg.k[1],
                                                last'.arg.e[1] = Bool(TRUE))]_vars

C20_Witness ==
    /\ last.op = "q.all"
    /\ last.prev = "q.first"
    /\ Len(last.out) >= 2
    /\ Objs(last.out) = query.records
    /\ \E g \in handles : g.obj = query.records[1]

====
